---- MODULE Spec2Model ----
(***************************************************************************)
(* Model of scripts/parse_psxgpu_dump.py: the PSXGPU capture decoder.      *)
(*                                                                         *)
(* A 32-bit word is kept as its two 16-bit halves [hi, lo], so that every  *)
(* shift and mask of the source is computed on the full 32-bit width.      *)
(* Word indices are 0-based as in the source; Sequences are 1-based, so    *)
(* the word at source index k is words[k + 1].                             *)
(***************************************************************************)
EXTENDS Integers, Sequences, FiniteSets, TLC

VARIABLES
    \* parse_gp0_stream: its argument, its cursor, its result list, its
    \* position (gpc) and what its last iteration did (last)
    words, i, lines, gpc, last,
    \* one call of a pure function: its name, its arguments, its result
    call,
    \* main: its position, the capture buffer, the mode selector (frame_idx)
    pc, data, sel,
    \* main's locals
    pos, in_trace, frame_start_offsets, current_frame, dumping, pkt_count,
    listed, vram_words,
    \* what the run printed, how it ended, the files it wrote
    out, status, files,
    \* every get_next_packet call of the run, in order
    reads

gp0vars == <<words, i, lines, gpc, last>>
mainvars == <<pc, data, sel, pos, in_trace, frame_start_offsets,
              current_frame, dumping, pkt_count, listed, vram_words,
              out, status, files, reads>>
vars == <<words, i, lines, gpc, last, call, pc, data, sel, pos, in_trace,
          frame_start_offsets, current_frame, dumping, pkt_count, listed,
          vram_words, out, status, files, reads>>

----------------------------------------------------------------------------
(* 32-bit words *)

Pow2(n) == 2 ^ n

W(h, l) == [hi |-> h, lo |-> l]

\* (w >> s) & (2^n - 1), for n <= 16
Bits(w, s, n) ==
    IF s >= 16 THEN (w.hi \div Pow2(s - 16)) % Pow2(n)
    ELSE IF s + n <= 16 THEN (w.lo \div Pow2(s)) % Pow2(n)
    ELSE (w.lo \div Pow2(s)) + ((w.hi % Pow2(s + n - 16)) * Pow2(16 - s))

\* (val >> 24) & 0xFF
CmdOf(val) == Bits(val, 24, 8)

\* (cmd & mask) != 0 for a one-bit mask 2^b
BitSet(cmd, b) == (cmd \div Pow2(b)) % 2 = 1

----------------------------------------------------------------------------
(* helpers of the decoder *)

\* sign_extend_11 without the subtraction
sign_extend_11_unsigned(x) == x % 2048

\* sign_extend_11 testing x > 0x400 for the sign
sign_extend_11_above(x) ==
    LET y == x % 2048
    IN  IF y > 1024 THEN y - 2048 ELSE y

sign_extend_11(x) ==
    LET y == x % 2048
    IN  IF (y \div 1024) % 2 = 1 THEN y - 2048 ELSE y

\* expand5to8 without the low bits
expand5to8_shiftOnly(x) == x * 8

\* (x << 3) | (x >> 2): for x < 32 the two operands share no bit
expand5to8(x) == (x * 8) + (x \div 4)

GP0_ENV ==
    [c \in {225, 226, 227, 228, 229, 230} |->
        CASE c = 225 -> "TEXPAGE"
          [] c = 226 -> "TEXWIN"
          [] c = 227 -> "CLIP_TL"
          [] c = 228 -> "CLIP_BR"
          [] c = 229 -> "DRAW_OFFSET"
          [] c = 230 -> "MASK"]

parse_gp0_env(val) ==
    LET cmd == CmdOf(val)
        name == GP0_ENV[cmd]
    IN  IF cmd = 227 \/ cmd = 228
        THEN [name |-> name, args |-> <<Bits(val, 0, 10), Bits(val, 10, 9)>>]
        ELSE IF cmd = 229
        THEN [name |-> name,
              args |-> <<sign_extend_11(Bits(val, 0, 11)),
                         sign_extend_11(Bits(val, 11, 11))>>]
        ELSE [name |-> name, args |-> <<val.hi, val.lo>>]

\* gp0_param_count with the gouraud textured polygon counted as verts * 3
gp0_param_count_noMinus(cmd) ==
    IF cmd <= 31 THEN 0
    ELSE IF 32 <= cmd /\ cmd <= 63 THEN
        LET gouraud == BitSet(cmd, 4)
            quad == BitSet(cmd, 3)
            textured == BitSet(cmd, 2)
            verts == IF quad THEN 4 ELSE 3
        IN  IF ~gouraud /\ ~textured THEN verts
            ELSE IF ~gouraud /\ textured THEN verts * 2
            ELSE IF gouraud /\ ~textured THEN verts * 2 - 1
            ELSE verts * 3
    ELSE IF 64 <= cmd /\ cmd <= 95 THEN
        IF BitSet(cmd, 3) THEN -1
        ELSE IF BitSet(cmd, 4) THEN 3 ELSE 2
    ELSE IF 96 <= cmd /\ cmd <= 127 THEN
        LET size_code == (cmd \div 8) % 4
        IN  1 + (IF size_code = 0 THEN 1 ELSE 0)
              + (IF BitSet(cmd, 2) THEN 1 ELSE 0)
    ELSE 0

gp0_param_count(cmd) ==
    IF cmd <= 31 THEN 0
    ELSE IF 32 <= cmd /\ cmd <= 63 THEN
        LET gouraud == BitSet(cmd, 4)
            quad == BitSet(cmd, 3)
            textured == BitSet(cmd, 2)
            verts == IF quad THEN 4 ELSE 3
        IN  IF ~gouraud /\ ~textured THEN verts
            ELSE IF ~gouraud /\ textured THEN verts * 2
            ELSE IF gouraud /\ ~textured THEN verts * 2 - 1
            ELSE verts * 3 - 1
    ELSE IF 64 <= cmd /\ cmd <= 95 THEN
        IF BitSet(cmd, 3) THEN -1
        ELSE IF BitSet(cmd, 4) THEN 3 ELSE 2
    ELSE IF 96 <= cmd /\ cmd <= 127 THEN
        LET size_code == (cmd \div 8) % 4
        IN  1 + (IF size_code = 0 THEN 1 ELSE 0)
              + (IF BitSet(cmd, 2) THEN 1 ELSE 0)
    ELSE 0

----------------------------------------------------------------------------
(* parse_gp0_stream: one iteration of its while loop at cursor i.          *)
(* A branch yields [emit, adv, short]: the operations appended to lines    *)
(* (none or one), the advance of the cursor, and whether the command       *)
(* lacked operand words in the stream.                                     *)

Line(n, k, nm, c, inf) ==
    [consumed |-> n, kind |-> k, name |-> nm, cmd |-> c, info |-> inf]

WordAt(ws, k) == ws[k + 1]

\* words[a:b], for 0 <= a <= b <= len(words)
Slice(ws, a, b) == SubSeq(ws, a + 1, b)

Min(a, b) == IF a <= b THEN a ELSE b

PolyName(cmd) ==
    LET quad == BitSet(cmd, 3)
        gouraud == BitSet(cmd, 4)
        textured == BitSet(cmd, 2)
    IN  CASE ~quad /\ ~gouraud /\ ~textured -> "TRI_FLAT"
          [] ~quad /\ ~gouraud /\ textured -> "TRI_FLAT_TEX"
          [] ~quad /\ gouraud /\ ~textured -> "TRI_GOURAUD"
          [] ~quad /\ gouraud /\ textured -> "TRI_GOURAUD_TEX"
          [] quad /\ ~gouraud /\ ~textured -> "QUAD_FLAT"
          [] quad /\ ~gouraud /\ textured -> "QUAD_FLAT_TEX"
          [] quad /\ gouraud /\ ~textured -> "QUAD_GOURAUD"
          [] quad /\ gouraud /\ textured -> "QUAD_GOURAUD_TEX"

\* r, g, b of a colour word
ColorOf(w) ==
    <<expand5to8(Bits(w, 0, 5)), expand5to8(Bits(w, 5, 5)),
      expand5to8(Bits(w, 10, 5))>>

\* PolyVerts without the skip of the texture word
RECURSIVE PolyVerts_noTexSkip(_, _, _, _, _, _, _, _)
PolyVerts_noTexSkip(chunk, nverts, gouraud, textured, j, idx, rgb, verts) ==
    IF j >= nverts THEN [verts |-> verts, idx |-> idx, err |-> FALSE]
    ELSE
        LET readsColor == j > 0 /\ gouraud
        IN  IF readsColor /\ idx >= Len(chunk)
            THEN [verts |-> verts, idx |-> idx, err |-> TRUE]
            ELSE
                LET rgb1 == IF readsColor THEN ColorOf(WordAt(chunk, idx))
                            ELSE rgb
                    idx1 == IF readsColor THEN idx + 1 ELSE idx
                IN  IF idx1 >= Len(chunk)
                    THEN [verts |-> verts, idx |-> idx1, err |-> FALSE]
                    ELSE
                        LET v == WordAt(chunk, idx1)
                            x == sign_extend_11(Bits(v, 0, 11))
                            y == sign_extend_11(Bits(v, 16, 11))
                        IN  PolyVerts_noTexSkip(chunk, nverts, gouraud, textured,
                                      j + 1, idx1 + 1, rgb1,
                                      Append(verts, <<x, y, rgb1[1], rgb1[2], rgb1[3]>>))

\* The vertex loop, from vertex j with read index idx and colour rgb.
\* Yields [verts, idx, err]: err is set where the source would index the
\* chunk past its end (IndexError).
RECURSIVE PolyVerts(_, _, _, _, _, _, _, _)
PolyVerts(chunk, nverts, gouraud, textured, j, idx, rgb, verts) ==
    IF j >= nverts THEN [verts |-> verts, idx |-> idx, err |-> FALSE]
    ELSE
        LET readsColor == j > 0 /\ gouraud
        IN  IF readsColor /\ idx >= Len(chunk)
            THEN [verts |-> verts, idx |-> idx, err |-> TRUE]
            ELSE
                LET rgb1 == IF readsColor THEN ColorOf(WordAt(chunk, idx))
                            ELSE rgb
                    idx1 == IF readsColor THEN idx + 1 ELSE idx
                IN  IF idx1 >= Len(chunk)
                    THEN [verts |-> verts, idx |-> idx1, err |-> FALSE]
                    ELSE
                        LET v == WordAt(chunk, idx1)
                            x == sign_extend_11(Bits(v, 0, 11))
                            y == sign_extend_11(Bits(v, 16, 11))
                            idx2 == idx1 + 1 + (IF textured THEN 1 ELSE 0)
                        IN  PolyVerts(chunk, nverts, gouraud, textured,
                                      j + 1, idx2, rgb1,
                                      Append(verts, <<x, y, rgb1[1], rgb1[2], rgb1[3]>>))

PolygonBranch(ws, k, cmd) ==
    LET nparams == gp0_param_count(cmd)
    IN  IF k + 1 + nparams > Len(ws)
        THEN [emit |-> <<Line(1, "POLY_INCOMPLETE", "", cmd, <<>>)>>,
              adv |-> 1, short |-> TRUE, err |-> FALSE]
        ELSE
            LET chunk == Slice(ws, k, k + 1 + nparams)
                quad == BitSet(cmd, 3)
                gouraud == BitSet(cmd, 4)
                textured == BitSet(cmd, 2)
                nverts == IF quad THEN 4 ELSE 3
                r == PolyVerts(chunk, nverts, gouraud, textured, 0, 1,
                               ColorOf(WordAt(chunk, 0)), <<>>)
            IN  [emit |-> <<Line(Len(chunk), "POLY", PolyName(cmd), cmd, r.verts)>>,
                 adv |-> Len(chunk), short |-> FALSE, err |-> r.err]

\* (w & 0xF000F000) == 0x50005000
IsTerminator(w) == Bits(w, 28, 4) = 5 /\ Bits(w, 12, 4) = 5

\* while j < len(words): break at a terminator, else j += step
RECURSIVE ScanTerminator(_, _, _)
ScanTerminator(ws, j, step) ==
    IF j < Len(ws) /\ ~IsTerminator(WordAt(ws, j))
    THEN ScanTerminator(ws, j + step, step)
    ELSE j

LineBranch(ws, k, cmd) ==
    LET fixed == gp0_param_count(cmd)
        j == ScanTerminator(ws, k + 1, IF BitSet(cmd, 4) THEN 2 ELSE 1)
        nparams == IF fixed < 0 THEN j - k - 1 ELSE fixed
    IN  IF k + 1 + nparams <= Len(ws)
        THEN [emit |-> <<Line(1 + nparams, "LINE", "", cmd, <<nparams + 1>>)>>,
              adv |-> 1 + nparams,
              short |-> fixed < 0 /\ j >= Len(ws), err |-> FALSE]
        ELSE [emit |-> <<Line(1, "LINE_INCOMPLETE", "", cmd, <<>>)>>,
              adv |-> 1, short |-> TRUE, err |-> FALSE]

\* RectBranch reporting the operand count alone as consumed
RectBranch_operandsOnly(ws, k, cmd) ==
    LET nparams == gp0_param_count(cmd)
    IN  IF k + 1 + nparams <= Len(ws)
        THEN [emit |-> <<Line(nparams, "RECT", "", cmd, <<>>)>>,
              adv |-> 1 + nparams, short |-> FALSE, err |-> FALSE]
        ELSE [emit |-> <<Line(1, "RECT_INCOMPLETE", "", cmd, <<>>)>>,
              adv |-> 1, short |-> TRUE, err |-> FALSE]

RectBranch(ws, k, cmd) ==
    LET nparams == gp0_param_count(cmd)
    IN  IF k + 1 + nparams <= Len(ws)
        THEN [emit |-> <<Line(1 + nparams, "RECT", "", cmd, <<>>)>>,
              adv |-> 1 + nparams, short |-> FALSE, err |-> FALSE]
        ELSE [emit |-> <<Line(1, "RECT_INCOMPLETE", "", cmd, <<>>)>>,
              adv |-> 1, short |-> TRUE, err |-> FALSE]

\* PixelCount with n // 2 for (n + 1) // 2
PixelCount_floor(w, h) ==
    LET p == w * (h % 2)
    IN  [half |-> w * (h \div 2) + (p \div 2), odd |-> 0]

\* n = w * h for w, h < 2^16, kept as n = 2 * half + odd: the product itself
\* may exceed 31 bits. (n + 1) // 2 is then half + odd.
PixelCount(w, h) ==
    LET p == w * (h % 2)
    IN  [half |-> w * (h \div 2) + (p \div 2), odd |-> p % 2]

\* VramWriteBranch leaving the cursor in place when the header is cut short
VramWriteBranch_stay(ws, k, cmd) ==
    IF k + 3 <= Len(ws)
    THEN
        LET w == Bits(WordAt(ws, k + 1), 0, 16)
            h == Bits(WordAt(ws, k + 2), 0, 16)
            n == PixelCount(w, h)
            nwords == 3 + n.half + n.odd
            c == Min(nwords, Len(ws) - k)
        IN  [emit |-> <<Line(c, "VRAM_WRITE", "", cmd, <<n.half, n.odd>>)>>,
             adv |-> c, short |-> nwords > Len(ws) - k, err |-> FALSE]
    ELSE [emit |-> <<>>, adv |-> 0, short |-> TRUE, err |-> FALSE]

VramWriteBranch(ws, k, cmd) ==
    IF k + 3 <= Len(ws)
    THEN
        LET w == Bits(WordAt(ws, k + 1), 0, 16)
            h == Bits(WordAt(ws, k + 2), 0, 16)
            n == PixelCount(w, h)
            nwords == 3 + n.half + n.odd
            c == Min(nwords, Len(ws) - k)
        IN  [emit |-> <<Line(c, "VRAM_WRITE", "", cmd, <<n.half, n.odd>>)>>,
             adv |-> c, short |-> nwords > Len(ws) - k, err |-> FALSE]
    ELSE [emit |-> <<>>, adv |-> 1, short |-> TRUE, err |-> FALSE]

Gp0Step(ws, k) ==
    LET val == WordAt(ws, k)
        cmd == CmdOf(val)
    IN  IF cmd \in DOMAIN GP0_ENV
        THEN LET e == parse_gp0_env(val)
             IN  [emit |-> <<Line(1, "ENV", e.name, cmd, e.args)>>,
                  adv |-> 1, short |-> FALSE, err |-> FALSE]
        ELSE IF 32 <= cmd /\ cmd <= 63 THEN PolygonBranch(ws, k, cmd)
        ELSE IF 64 <= cmd /\ cmd <= 95 THEN LineBranch(ws, k, cmd)
        ELSE IF 96 <= cmd /\ cmd <= 127 THEN RectBranch(ws, k, cmd)
        ELSE IF cmd = 160 THEN VramWriteBranch(ws, k, cmd)
        ELSE [emit |-> <<Line(1, "UNKNOWN", "", cmd, <<>>)>>,
              adv |-> 1, short |-> FALSE, err |-> FALSE]

\* The whole call, as the list it returns.
RECURSIVE ParseFrom(_, _, _)
ParseFrom(ws, k, acc) ==
    IF k < Len(ws)
    THEN LET s == Gp0Step(ws, k) IN ParseFrom(ws, k + s.adv, acc \o s.emit)
    ELSE acc

parse_gp0_stream(ws) == ParseFrom(ws, 0, <<>>)

RECURSIVE SumConsumed(_)
SumConsumed(ls) ==
    IF ls = <<>> THEN 0 ELSE Head(ls).consumed + SumConsumed(Tail(ls))

----------------------------------------------------------------------------
(* The capture buffer: len bytes, of which ex holds the non-zero ones by   *)
(* position (0-based); every other byte below len is 0.                    *)

ByteAt(d, p) == IF p \in DOMAIN d.ex THEN d.ex[p] ELSE 0

\* struct.unpack_from("<I", data, p)[0]
U32At(d, p) ==
    W(ByteAt(d, p + 2) + 256 * ByteAt(d, p + 3),
      ByteAt(d, p) + 256 * ByteAt(d, p + 1))

\* b"PSXGPUDUMP"
Magic == <<80, 83, 88, 71, 80, 85, 68, 85, 77, 80>>

\* parse_header comparing the first 9 bytes only
parse_header_nine(d) ==
    IF d.len < 14 \/ \E k \in 0..8 : ByteAt(d, k) # Magic[k + 1]
    THEN [ok |-> FALSE, pos |-> 0]
    ELSE [ok |-> TRUE, pos |-> 14]

\* [ok, pos]: ok is FALSE where the source raises ValueError
parse_header(d) ==
    IF d.len < 14 \/ \E k \in 0..9 : ByteAt(d, k) # Magic[k + 1]
    THEN [ok |-> FALSE, pos |-> 0]
    ELSE [ok |-> TRUE, pos |-> 14]

\* HdrLength masking with 0xFFFF
HdrLength_mask16(hdr) == Bits(hdr, 0, 16)

\* hdr & 0xFFFFFF and (hdr >> 24) & 0xFF
HdrLength(hdr) == Bits(hdr, 0, 16) + 65536 * Bits(hdr, 16, 8)
HdrType(hdr) == Bits(hdr, 24, 8)

\* get_next_packet with >= for > in the payload bound
get_next_packet_offByOne(d, p) ==
    IF p + 4 > d.len
    THEN [some |-> FALSE, ptype |-> 0, base |-> 0, size |-> 0, pos |-> p]
    ELSE
        LET hdr == U32At(d, p)
            p1 == p + 4
            length == HdrLength(hdr)
            ptype == HdrType(hdr)
            payload_size == length * 4
        IN  IF p1 + payload_size >= d.len
            THEN [some |-> FALSE, ptype |-> 0, base |-> 0, size |-> 0, pos |-> p1]
            ELSE [some |-> TRUE, ptype |-> ptype, base |-> p1,
                  size |-> payload_size, pos |-> p1 + payload_size]

\* [some, ptype, base, size, pos]: some is FALSE for the None sentinel; the
\* payload is data[base : base + size]
get_next_packet(d, p) ==
    IF p + 4 > d.len
    THEN [some |-> FALSE, ptype |-> 0, base |-> 0, size |-> 0, pos |-> p]
    ELSE
        LET hdr == U32At(d, p)
            p1 == p + 4
            length == HdrLength(hdr)
            ptype == HdrType(hdr)
            payload_size == length * 4
        IN  IF p1 + payload_size > d.len
            THEN [some |-> FALSE, ptype |-> 0, base |-> 0, size |-> 0, pos |-> p1]
            ELSE [some |-> TRUE, ptype |-> ptype, base |-> p1,
                  size |-> payload_size, pos |-> p1 + payload_size]

\* struct.unpack_from(f"<{len(payload)//4}I", payload, 0)[k]
PayloadWord(d, pkt, k) == U32At(d, pkt.base + 4 * k)
PayloadLen(pkt) == pkt.size \div 4
PayloadWords(d, pkt) == [k \in 1..PayloadLen(pkt) |-> PayloadWord(d, pkt, k - 1)]

----------------------------------------------------------------------------
(* main *)

PT_GPUPort0Data == 0
PT_GPUPort1Data == 1
PT_VSyncEvent == 2
PT_TraceBegin == 5

\* len(words) >= 262147 and words[3:3 + 262144]
VramMinWords == 262147
VramWordCount == 262144
\* while ... n < 200 of the listing modes
ListCap == 200
\* if len(words) <= 20 of the pre-trace dump
ListInlineMax == 20

NoOp == Line(0, "", "", 0, <<>>)

\* One printed item: what it is, the operation or number it shows, and
\* (at) the offset of the packet it was printed for, -1 if none.
Emit(t, at, op, n) == [t |-> t, at |-> at, op |-> op, n |-> n]

RECURSIVE EmitLines(_, _)
EmitLines(ls, at) ==
    IF ls = <<>> THEN <<>>
    ELSE <<Emit("gp0", at, Head(ls), 0)>> \o EmitLines(Tail(ls), at)

IsInt(fi) == fi.kind = "frame"
IsNone(fi) == fi.kind = "none"

\* (words[0] >> 24) == 0xA0 and words[1] == 0 and words[2] == 0
VramSignature(d, pkt) ==
    /\ CmdOf(PayloadWord(d, pkt, 0)) = 160
    /\ PayloadWord(d, pkt, 1) = W(0, 0)
    /\ PayloadWord(d, pkt, 2) = W(0, 0)

NoVram == [some |-> FALSE, base |-> 0, count |-> 0]

\* A get_next_packet call: the cursor it was given, whether it returned a
\* packet, the packet's type, the cursor it returned, the loop it was made in
Read(at, r) ==
    [at |-> at, some |-> r.some, ptype |-> r.ptype, to |-> r.pos, pass |-> pc]

\* data = load_dump(path); pos = parse_header(data); the mode dispatch
Start ==
    /\ pc = "start"
    /\ LET h == parse_header(data)
       IN  IF ~h.ok
           THEN /\ pc' = "done"
                /\ status' = "ValueError"
                /\ UNCHANGED <<pos, in_trace, frame_start_offsets,
                               current_frame, listed>>
           ELSE /\ pos' = h.pos
                /\ in_trace' = FALSE
                /\ frame_start_offsets' = <<>>
                /\ current_frame' = -1
                /\ listed' = 0
                /\ status' = "running"
                /\ pc' = IF sel.kind \in {"list", "pretrace"} THEN "list"
                         ELSE IF sel.kind = "vram" THEN "vram"
                         ELSE "first"
    /\ UNCHANGED <<data, sel, dumping, pkt_count, vram_words, out, files,
                   reads, gp0vars, call>>

\* One iteration of the loop of the --list and --pre-trace modes.
ListIter ==
    /\ pc = "list"
    /\ IF pos < data.len /\ listed < ListCap
       THEN LET r == get_next_packet(data, pos)
                nw == PayloadLen(r)
                dump_content == sel.kind = "pretrace"
                gp0 == IF dump_content /\ r.ptype = 0 /\ r.size >= 4
                       THEN IF nw <= ListInlineMax
                            THEN EmitLines(parse_gp0_stream(PayloadWords(data, r)), pos)
                            ELSE IF nw >= 3 /\ VramSignature(data, r)
                            THEN <<Emit("vraminit", pos, NoOp, nw - 3)>>
                            ELSE <<>>
                       ELSE <<>>
                gp1 == IF dump_content /\ r.ptype = 1 /\ r.size >= 4
                       THEN <<Emit("gp1", pos, NoOp,
                                   Bits(PayloadWord(data, r, 0), 24, 6))>>
                       ELSE <<>>
            IN  /\ reads' = Append(reads, Read(pos, r))
                /\ pos' = r.pos
                /\ IF ~r.some
                   THEN /\ pc' = "done"
                        /\ status' = "exit0"
                        /\ UNCHANGED <<out, listed>>
                   ELSE /\ out' = out \o <<Emit("packet", pos, NoOp, r.ptype)>>
                                      \o gp0 \o gp1
                                      \o (IF r.ptype = 5
                                          THEN <<Emit("tracebegin", pos, NoOp, 0)>>
                                          ELSE <<>>)
                        /\ IF r.ptype = 5
                           THEN pc' = "done" /\ status' = "exit0"
                                /\ UNCHANGED listed
                           ELSE pc' = pc /\ status' = status
                                /\ listed' = listed + 1
       ELSE /\ pc' = "done"
            /\ status' = "exit0"
            /\ UNCHANGED <<pos, out, listed, reads>>
    /\ UNCHANGED <<data, sel, in_trace, frame_start_offsets, current_frame,
                   dumping, pkt_count, vram_words, files, gp0vars, call>>

\* VramHit without the length test
VramHit_anyLength(d, r) ==
    /\ r.ptype = 0 /\ r.size >= 4
    /\ VramSignature(d, r)

\* if ptype == 0 and len(payload) >= 4: ... if len(words) >= 262147 and ...
VramHit(d, r) ==
    /\ r.ptype = 0 /\ r.size >= 4
    /\ PayloadLen(r) >= VramMinWords
    /\ VramSignature(d, r)

\* VramSlice taking the words from the start of the payload
VramSlice_fromStart(r) ==
    [some |-> TRUE, base |-> r.base,
     count |-> Min(VramWordCount, PayloadLen(r))]

\* vram_words = words[3:3 + 262144], as the place of the slice in the buffer
VramSlice(r) ==
    [some |-> TRUE, base |-> r.base + 12,
     count |-> Min(VramWordCount, PayloadLen(r) - 3)]

\* One iteration of the scan of the --vram mode.
VramIter ==
    /\ pc = "vram"
    /\ IF pos < data.len
       THEN LET r == get_next_packet(data, pos)
                nw == PayloadLen(r)
                hit == r.some /\ VramHit(data, r)
            IN  /\ reads' = Append(reads, Read(pos, r))
                /\ pos' = r.pos
                /\ vram_words' = IF hit THEN VramSlice(r) ELSE vram_words
                /\ pc' = IF ~r.some \/ hit THEN "vram_end" ELSE pc
       ELSE /\ pc' = "vram_end"
            /\ UNCHANGED <<pos, vram_words, reads>>
    /\ UNCHANGED <<data, sel, in_trace, frame_start_offsets, current_frame,
                   dumping, pkt_count, listed, out, status, files, gp0vars,
                   call>>

\* W, H = 1024, 512; block = 4; the caps of the preview in blocks
VramW == 1024
VramH == 512
Block == 4
PreviewCols == 160
PreviewRows == 120

\* chars = " .:-=+*#@"
Ramp == <<" ", ".", ":", "-", "=", "+", "*", "#", "@">>

px_to_bright(px16) ==
    LET r == px16 % 32
        g == (px16 \div 32) % 32
        b == (px16 \div 1024) % 32
    IN  (((r * 255) \div 31) + ((g * 255) \div 31) + ((b * 255) \div 31)) \div 3

\* pixels[idx]: the brightness of the low half of image word idx // 2 for an
\* even idx, of its high half for an odd one
PixelBright(d, vw, idx) ==
    LET w == U32At(d, vw.base + 4 * (idx \div 2))
    IN  px_to_bright(IF idx % 2 = 0 THEN w.lo ELSE w.hi)

\* avg of block (bx, by): every pixel of the block lies in the image
BlockAvg(d, vw, bx, by) ==
    LET P == {<<bx * Block + dx, by * Block + dy>> :
                  dx \in 0..(Block - 1), dy \in 0..(Block - 1)}
        RECURSIVE Acc(_)
        Acc(S) == IF S = {} THEN 0
                  ELSE LET q == CHOOSE x \in S : TRUE
                       IN  PixelBright(d, vw, q[2] * VramW + q[1]) + Acc(S \ {q})
    IN  Acc(P) \div Cardinality(P)

\* min(9, avg * 10 // 256)
RampIndex(avg) == Min(9, (avg * 10) \div 256)

\* The blocks of the preview that hold a non-zero byte of the buffer; every
\* other block averages 0 and prints chars[0]
LitBlocks(d, vw) ==
    {b \in {LET wi == (q - vw.base) \div 4
                x == (2 * wi) % VramW
                y == (2 * wi) \div VramW
            IN  <<x \div Block, y \div Block>> :
            q \in {q \in DOMAIN d.ex :
                      vw.base <= q /\ q < vw.base + 4 * vw.count}} :
        b[1] < Min(VramW \div Block, PreviewCols)
        /\ b[2] < Min(VramH \div Block, PreviewRows)}

\* Whether chars[...] is indexed past its end for some block (IndexError)
RenderFails(d, vw) ==
    \E b \in LitBlocks(d, vw) :
        RampIndex(BlockAvg(d, vw, b[1], b[2])) >= Len(Ramp)

\* After the scan: "VRAM not found" and exit 1, or the preview and the two
\* files.
VramEnd ==
    /\ pc = "vram_end"
    /\ pc' = "done"
    /\ IF ~vram_words.some \/ vram_words.count = 0
       THEN /\ out' = Append(out, Emit("vram_not_found", -1, NoOp, 0))
            /\ status' = "exit1"
            /\ UNCHANGED files
       ELSE IF RenderFails(data, vram_words)
       THEN /\ status' = "IndexError"
            /\ UNCHANGED <<out, files>>
       ELSE /\ out' = out \o <<Emit("ascii", -1, NoOp, vram_words.count),
                               Emit("ppm_saved", -1, NoOp, 0),
                               Emit("layout_saved", -1, NoOp, 0)>>
            /\ files' = files \cup {"ppm", "layout"}
            /\ status' = "exit0"
    /\ UNCHANGED <<data, sel, pos, in_trace, frame_start_offsets,
                   current_frame, dumping, pkt_count, listed, vram_words,
                   reads, gp0vars, call>>

\* FirstPassAppends without the in_trace test
FirstPassAppends_anyVSync(ptype, traced) ==
    ptype = PT_TraceBegin \/ ptype = PT_VSyncEvent

\* Whether the first pass records the offset after a packet of this type
FirstPassAppends(ptype, traced) ==
    ptype = PT_TraceBegin \/ (ptype = PT_VSyncEvent /\ traced)

\* One iteration of the first pass: the frame index.
FirstPassIter ==
    /\ pc = "first"
    /\ IF pos < data.len
       THEN LET r == get_next_packet(data, pos)
            IN  /\ reads' = Append(reads, Read(pos, r))
                /\ pos' = r.pos
                /\ IF ~r.some
                   THEN /\ pc' = "first_end"
                        /\ UNCHANGED <<frame_start_offsets, in_trace>>
                   ELSE /\ pc' = pc
                        /\ frame_start_offsets' =
                               IF FirstPassAppends(r.ptype, in_trace)
                               THEN Append(frame_start_offsets, r.pos)
                               ELSE frame_start_offsets
                        /\ in_trace' = (in_trace \/ r.ptype = PT_TraceBegin)
       ELSE /\ pc' = "first_end"
            /\ UNCHANGED <<pos, frame_start_offsets, in_trace, reads>>
    /\ UNCHANGED <<data, sel, current_frame, dumping, pkt_count, listed,
                   vram_words, out, status, files, gp0vars, call>>

\* frames_to_skip with no frame selected when there is no selector
frames_to_skip_unset == IF IsInt(sel) THEN sel.idx ELSE -1

frames_to_skip == IF IsInt(sel) THEN sel.idx ELSE 0

\* After the first pass: "No frames found" and exit 1, or the reset before
\* the second pass.
FirstPassEnd ==
    /\ pc = "first_end"
    /\ IF frame_start_offsets = <<>>
       THEN /\ out' = Append(out, Emit("no_frames", -1, NoOp, 0))
            /\ status' = "exit1"
            /\ pc' = "done"
            /\ UNCHANGED <<pos, in_trace, current_frame, dumping, pkt_count>>
       ELSE /\ pos' = parse_header(data).pos
            /\ in_trace' = FALSE
            /\ current_frame' = -1
            /\ dumping' = (~IsInt(sel) \/ sel.idx = 0)
            /\ pkt_count' = 0
            /\ pc' = "second"
            /\ UNCHANGED <<out, status>>
    /\ UNCHANGED <<data, sel, frame_start_offsets, listed, vram_words, files,
                   reads, gp0vars, call>>

\* PacketDump skipping only what the --vram scan would take
PacketDump_fullBlitOnly(d, r, at) ==
    IF r.ptype = PT_GPUPort0Data
    THEN IF PayloadLen(r) >= VramMinWords /\ VramSignature(d, r)
         THEN <<Emit("vraminit", at, NoOp, PayloadLen(r) - 3)>>
         ELSE EmitLines(parse_gp0_stream(PayloadWords(d, r)), at)
    ELSE IF r.ptype = PT_GPUPort1Data /\ r.size >= 4
    THEN <<Emit("gp1", at, NoOp, Bits(PayloadWord(d, r, 0), 24, 6))>>
    ELSE <<>>

\* What the second pass prints for a GP0 or GP1 packet of the dumped frame.
PacketDump(d, r, at) ==
    IF r.ptype = PT_GPUPort0Data
    THEN IF PayloadLen(r) >= 3 /\ VramSignature(d, r)
         THEN <<Emit("vraminit", at, NoOp, PayloadLen(r) - 3)>>
         ELSE EmitLines(parse_gp0_stream(PayloadWords(d, r)), at)
    ELSE IF r.ptype = PT_GPUPort1Data /\ r.size >= 4
    THEN <<Emit("gp1", at, NoOp, Bits(PayloadWord(d, r, 0), 24, 6))>>
    ELSE <<>>

\* One iteration of the second pass.
SecondPassIter ==
    /\ pc = "second"
    /\ IF pos < data.len
       THEN LET r == get_next_packet(data, pos)
            IN  /\ reads' = Append(reads, Read(pos, r))
                /\ pos' = r.pos
                /\ IF ~r.some
                   THEN /\ pc' = "second_end"
                        /\ UNCHANGED <<current_frame, dumping, in_trace,
                                       pkt_count, out>>
                   ELSE IF r.ptype = PT_TraceBegin
                   THEN /\ current_frame' = current_frame + 1
                        /\ dumping' = (dumping \/ current_frame' = frames_to_skip)
                        /\ out' = IF current_frame' = frames_to_skip
                                  THEN Append(out, Emit("frame", pos, NoOp,
                                                        current_frame'))
                                  ELSE out
                        /\ in_trace' = TRUE
                        /\ pc' = pc
                        /\ UNCHANGED pkt_count
                   ELSE IF r.ptype = PT_VSyncEvent
                   THEN /\ out' = IF dumping /\ current_frame = frames_to_skip
                                  THEN Append(out, Emit("vsync", pos, NoOp, 0))
                                  ELSE out
                        /\ current_frame' = current_frame + 1
                        /\ IF current_frame' > frames_to_skip /\ ~IsNone(sel)
                           THEN pc' = "second_end" /\ UNCHANGED dumping
                           ELSE /\ pc' = pc
                                /\ dumping' =
                                       (dumping \/ current_frame' = frames_to_skip)
                        /\ UNCHANGED <<in_trace, pkt_count>>
                   ELSE IF ~dumping \/ current_frame # frames_to_skip
                   THEN /\ pc' = pc
                        /\ UNCHANGED <<current_frame, dumping, in_trace,
                                       pkt_count, out>>
                   ELSE /\ pkt_count' = pkt_count + 1
                        /\ out' = out \o PacketDump(data, r, pos)
                        /\ pc' = pc
                        /\ UNCHANGED <<current_frame, dumping, in_trace>>
       ELSE /\ pc' = "second_end"
            /\ UNCHANGED <<pos, current_frame, dumping, in_trace, pkt_count,
                           out, reads>>
    /\ UNCHANGED <<data, sel, frame_start_offsets, listed, vram_words, status,
                   files, gp0vars, call>>

\* print(f"\nTotal frames: {len(frame_start_offsets)}, packets in frame: ...")
SecondPassEnd ==
    /\ pc = "second_end"
    /\ out' = out \o <<Emit("total_frames", -1, NoOp, Len(frame_start_offsets)),
                       Emit("packets_in_frame", -1, NoOp, pkt_count)>>
    /\ status' = "exit0"
    /\ pc' = "done"
    /\ UNCHANGED <<data, sel, pos, in_trace, frame_start_offsets,
                   current_frame, dumping, pkt_count, listed, vram_words,
                   files, reads, gp0vars, call>>

----------------------------------------------------------------------------
(* Capture files: the container format the reader decodes, written out.    *)
(* A packet is [t, n, ws, ext]: its type, its declared word count, its     *)
(* leading payload words, and further payload words by index; every other  *)
(* payload word is 0.                                                      *)

Pkt(t, n, ws, ext) == [t |-> t, n |-> n, ws |-> ws, ext |-> ext]

\* The 4 bytes of a word, little-endian
BytesOfWord(w) == <<w.lo % 256, w.lo \div 256, w.hi % 256, w.hi \div 256>>

\* (t << 24) | n
HeaderWord(t, n) == W(t * 256 + (n \div 65536), n % 65536)

\* The bytes of word w at offset o, by position
WordAtOffset(o, w) ==
    LET b == BytesOfWord(w)
    IN  (o :> b[1]) @@ (o + 1 :> b[2]) @@ (o + 2 :> b[3]) @@ (o + 3 :> b[4])

\* The empty byte map
NoBytes == [q \in {} |-> 0]

RECURSIVE LeadingBytes(_, _)
LeadingBytes(o, ws) ==
    IF ws = <<>> THEN NoBytes
    ELSE WordAtOffset(o, Head(ws)) @@ LeadingBytes(o + 4, Tail(ws))

RECURSIVE ExtraBytes(_, _)
ExtraBytes(o, ext) ==
    IF ext = {} THEN NoBytes
    ELSE LET e == CHOOSE x \in ext : TRUE
         IN  WordAtOffset(o + 4 * e[1], e[2]) @@ ExtraBytes(o, ext \ {e})

\* The explicit bytes of packet p written at offset o
PktBytes(o, p) ==
    WordAtOffset(o, HeaderWord(p.t, p.n))
    @@ LeadingBytes(o + 4, p.ws) @@ ExtraBytes(o + 4, p.ext)

RECURSIVE StreamBytes(_, _)
StreamBytes(o, pkts) ==
    IF pkts = <<>> THEN NoBytes
    ELSE PktBytes(o, Head(pkts)) @@ StreamBytes(o + 4 + 4 * Head(pkts).n, Tail(pkts))

RECURSIVE StreamLen(_)
StreamLen(pkts) ==
    IF pkts = <<>> THEN 0 ELSE 4 + 4 * Head(pkts).n + StreamLen(Tail(pkts))

\* b"PSXGPUDUMPv1\0\0", with byte `bad` (if any) of it altered
HeaderBytes(bad) ==
    [k \in 0..13 |-> IF k = bad THEN 33 ELSE (Magic \o <<118, 49, 0, 0>>)[k + 1]]

\* A buffer of n bytes: the bytes of f below n, the zero ones left out
Buffer(n, f) ==
    [len |-> n, ex |-> [q \in {x \in DOMAIN f : x < n /\ f[x] # 0} |-> f[q]]]

\* The file of a header and packets, less its last `cut` bytes.
FileOf(pkts, cut, bad) ==
    Buffer(14 + StreamLen(pkts) - cut, HeaderBytes(bad) @@ StreamBytes(14, pkts))

\* All sequences over S of length at most n
SeqsUpTo(S, n) == UNION {[1..k -> S] : k \in 0..n}

----------------------------------------------------------------------------
(* Inputs *)

\* Most blocks (single words or whole commands) of a GP0 word stream
MaxBlocks == 3
\* Most packets in a capture of SpecFrame, of SpecVram, of SpecMain
MaxFramePkts == 4
MaxVramPkts == 3
MaxMainPkts == 2
\* Largest requested frame index
MaxFrameIdx == 3
\* Most packets in a capture of SpecBlit
MaxBlitPkts == 3
\* Most bytes missing at the end of a capture
MaxCut == 2
\* Largest small word count of a round-trip packet
MaxTripWords == 3

TriCmd == W(8192, 31775)        \* 0x20007C1F: flat triangle, colour 1F,00,1F
VtxA == W(16, 2047)             \* 0x001007FF: x = -1, y = 16
VtxB == W(2047, 1024)           \* 0x07FF0400: x = -1024, y = -1
VtxC == W(0, 5)                 \* 0x00000005: x = 5, y = 0
Zero == W(0, 0)
One == W(0, 1)
DrawOffset == W(58687, 64512)   \* 0xE53FFC00: DRAW_OFFSET (-1024, -1)
PolyLine == W(18432, 0)         \* 0x48000000
ShadedPolyLine == W(22528, 0)   \* 0x58000000
Terminator == W(20480, 20480)   \* 0x50005000
Rect == W(26624, 0)             \* 0x68000000: one operand
VramWrite == W(40960, 0)        \* 0xA0000000
Gp1Reset == W(768, 1)           \* 0x03000001

Gp0Alphabet ==
    {TriCmd, VtxA, Zero, One, DrawOffset, PolyLine, ShadedPolyLine,
     Terminator, Rect, VramWrite}

\* The blocks GP0 word streams are made of: every single word of the
\* alphabet, and whole commands with their operands
Gp0Blocks ==
    {<<w>> : w \in Gp0Alphabet}
    \cup {<<TriCmd, VtxA, VtxB, VtxC>>,
          <<PolyLine, VtxA, VtxB, Terminator>>,
          <<ShadedPolyLine, VtxA, One, Terminator>>,
          <<VramWrite, One, One, VtxA>>}

RECURSIVE Concat(_)
Concat(bs) == IF bs = <<>> THEN <<>> ELSE Head(bs) \o Concat(Tail(bs))

Gp0Streams == {Concat(bs) : bs \in SeqsUpTo(Gp0Blocks, MaxBlocks)}

TraceBeginPkt == Pkt(PT_TraceBegin, 0, <<>>, {})
VSyncPkt == Pkt(PT_VSyncEvent, 0, <<>>, {})
TriPkt == Pkt(PT_GPUPort0Data, 4, <<TriCmd, VtxA, VtxB, VtxC>>, {})
Gp1Pkt == Pkt(PT_GPUPort1Data, 1, <<Gp1Reset>>, {})
\* The full-framebuffer upload, its first and last pixel words marked
VramPkt == Pkt(PT_GPUPort0Data, VramMinWords + 1, <<VramWrite>>,
               {<<3, VtxA>>, <<VramMinWords - 1, VtxB>>, <<VramMinWords, VtxC>>})
\* One word short of it; with a non-zero origin; on port 1
ShortVramPkt == Pkt(PT_GPUPort0Data, VramMinWords - 1, <<VramWrite>>, {<<3, VtxA>>})
OffsetVramPkt == Pkt(PT_GPUPort0Data, VramMinWords, <<VramWrite, One>>, {})
Port1VramPkt == Pkt(PT_GPUPort1Data, VramMinWords, <<VramWrite>>, {})

\* The full upload with the 4x4 block at pixel column col of rows 0-3 white
WhiteBlockPkt(col) ==
    Pkt(PT_GPUPort0Data, VramMinWords, <<VramWrite>>,
        {<<3 + y * 512 + (col \div 2) + k, W(65535, 65535)>> :
             y \in 0..3, k \in 0..1})
\* A white block inside the preview, and one right of its last column
WhiteVramPkt == WhiteBlockPkt(0)
WhiteOutsidePkt == WhiteBlockPkt(640)

\* GP0 packets that start with 0xA0: a short one with zero second and third
\* words followed by other commands, one with a non-zero second word, one
\* of two words only
ShortBlitPkt ==
    Pkt(PT_GPUPort0Data, 8,
        <<VramWrite, Zero, Zero, DrawOffset, TriCmd, VtxA, VtxB, VtxC>>, {})
NearBlitPkt == Pkt(PT_GPUPort0Data, 4, <<VramWrite, One, Zero, DrawOffset>>, {})
TinyBlitPkt == Pkt(PT_GPUPort0Data, 2, <<VramWrite, Zero>>, {})
BlitPkts ==
    {TraceBeginPkt, VSyncPkt, ShortBlitPkt, NearBlitPkt, TinyBlitPkt, VramPkt}

FramePkts == {TraceBeginPkt, VSyncPkt, TriPkt, Gp1Pkt}
VramPkts ==
    {VramPkt, ShortVramPkt, OffsetVramPkt, Port1VramPkt, TriPkt,
     WhiteVramPkt, WhiteOutsidePkt}
MainPkts == {TraceBeginPkt, VSyncPkt, TriPkt, Gp1Pkt, VramPkt}

Sel(k, n) == [kind |-> k, idx |-> n]
FrameSels == {Sel("none", 0)} \cup {Sel("frame", n) : n \in 0..MaxFrameIdx}
AllSels == FrameSels \cup {Sel("list", 0), Sel("pretrace", 0), Sel("vram", 0)}

NoStep == [at |-> -1, adv |-> 0, emit |-> <<>>, short |-> FALSE,
           err |-> FALSE, everShort |-> FALSE]
NoCall == [fn |-> "none", args |-> <<>>, ret |-> 0]
NoData == [len |-> 0, ex |-> <<>>]

Gp0Idle ==
    /\ words = <<>> /\ i = 0 /\ lines = <<>> /\ gpc = "idle" /\ last = NoStep

MainLocals ==
    /\ pos = 0 /\ in_trace = FALSE /\ frame_start_offsets = <<>>
    /\ current_frame = -1 /\ dumping = FALSE /\ pkt_count = 0 /\ listed = 0
    /\ vram_words = NoVram /\ out = <<>> /\ status = "running" /\ files = {}
    /\ reads = <<>>

MainIdle == pc = "idle" /\ data = NoData /\ sel = Sel("none", 0) /\ MainLocals

----------------------------------------------------------------------------
(* parse_gp0_stream on every word stream of at most MaxBlocks blocks *)

InitGp0 ==
    /\ words \in Gp0Streams
    /\ i = 0 /\ lines = <<>> /\ gpc = "loop" /\ last = NoStep
    /\ call = NoCall
    /\ MainIdle

ParseIter ==
    /\ gpc = "loop"
    /\ i < Len(words)
    /\ LET s == Gp0Step(words, i)
       IN  /\ lines' = lines \o s.emit
           /\ i' = i + s.adv
           /\ last' = [at |-> i, adv |-> s.adv, emit |-> s.emit,
                       short |-> s.short, err |-> s.err,
                       everShort |-> last.everShort \/ s.short]
    /\ UNCHANGED <<words, gpc, call, mainvars>>

ParseReturn ==
    /\ gpc = "loop"
    /\ i >= Len(words)
    /\ gpc' = "done"
    /\ UNCHANGED <<words, i, lines, last, call, mainvars>>

NextGp0 == ParseIter \/ ParseReturn

SpecGp0 == InitGp0 /\ [][NextGp0]_vars

\* Most blocks of a word stream of SpecGp0Live
MaxLiveBlocks == 2

InitGp0Live ==
    /\ words \in {Concat(bs) : bs \in SeqsUpTo(Gp0Blocks, MaxLiveBlocks)}
    /\ i = 0 /\ lines = <<>> /\ gpc = "loop" /\ last = NoStep
    /\ call = NoCall
    /\ MainIdle

\* The loop of parse_gp0_stream keeps running until it returns
SpecGp0Live == InitGp0Live /\ [][NextGp0]_vars /\ WF_vars(NextGp0)

----------------------------------------------------------------------------
(* single calls of the pure functions *)

InitPure == call = NoCall /\ Gp0Idle /\ MainIdle

CallParamCount ==
    /\ call = NoCall
    /\ \E cmd \in 0..255 :
           call' = [fn |-> "gp0_param_count", args |-> <<cmd>>,
                    ret |-> gp0_param_count(cmd)]
    /\ UNCHANGED <<gp0vars, mainvars>>

\* Word counts of the round trip: the small ones, and those at the byte
\* boundaries of the 24-bit field
TripCounts == 0..MaxTripWords \cup {255, 256, 65535, 65536, 16777215}

\* One packet alone in a buffer, read at cursor 0
PacketBuffer(t, n) ==
    LET p == Pkt(t, n, IF n > 0 THEN <<VtxA>> ELSE <<>>,
                 IF n > 1 THEN {<<n - 1, VtxB>>} ELSE {})
    IN  Buffer(4 + 4 * n, PktBytes(0, p))

CallGetNextPacket ==
    /\ call = NoCall
    /\ \E t \in 0..255, n \in TripCounts :
           LET d == PacketBuffer(t, n)
               r == get_next_packet(d, 0)
           IN  call' = [fn |-> "get_next_packet", args |-> <<t, n>>,
                        ret |-> [pkt |-> r,
                                 first |-> PayloadWord(d, r, 0),
                                 final |-> PayloadWord(d, r, PayloadLen(r) - 1)]]
    /\ UNCHANGED <<gp0vars, mainvars>>

CallSignExtend ==
    /\ call = NoCall
    /\ \E x \in 0..2047 :
           call' = [fn |-> "sign_extend_11", args |-> <<x>>,
                    ret |-> sign_extend_11(x)]
    /\ UNCHANGED <<gp0vars, mainvars>>

\* Values of an 11-bit field at and next to its sign boundary
EdgeFields == {0, 1, 1023, 1024, 1025, 2047}

\* The DRAW_OFFSET word 0xE5 with field x in bits 0-10, y in bits 11-21 and
\* top in bits 22-23
DrawOffsetWord(x, y, top) ==
    W(229 * 256 + top * 64 + (y \div 32), (y % 32) * 2048 + x)

\* parse_gp0_env on DRAW_OFFSET words: one field over its whole range, the
\* other at the edges
CallParseEnv ==
    /\ call = NoCall
    /\ \E x \in 0..2047, y \in EdgeFields, swap \in BOOLEAN, top \in {0, 3} :
           LET fx == IF swap THEN y ELSE x
               fy == IF swap THEN x ELSE y
           IN  call' = [fn |-> "parse_gp0_env", args |-> <<fx, fy, top>>,
                        ret |-> parse_gp0_env(DrawOffsetWord(fx, fy, top))]
    /\ UNCHANGED <<gp0vars, mainvars>>

CallExpand ==
    /\ call = NoCall
    /\ \E v \in 0..31 :
           call' = [fn |-> "expand5to8", args |-> <<v>>, ret |-> expand5to8(v)]
    /\ UNCHANGED <<gp0vars, mainvars>>

Grey == W(171, 16912)           \* 0x00AB4210: colour 84,84,84

\* Operand words of the polygon streams, read as colours and as vertices
PolyOperands == {VtxA, VtxB, Grey}

\* Most operand words of a polygon (the gouraud textured quad)
PolyMaxOperands == 11

\* The polygon command cmd with colour word c0 and n operand words, a at
\* the odd places and b at the even ones
PolygonStream(cmd, c0, n, a, b) ==
    <<W(cmd * 256 + (c0.hi % 256), c0.lo)>>
    \o [k \in 1..n |-> IF k % 2 = 1 THEN a ELSE b]

\* parse_gp0_stream on one polygon command of every opcode 0x20..0x3F, with
\* none to all of its operand words
CallParsePolygon ==
    /\ call = NoCall
    /\ \E cmd \in 32..63, n \in 0..PolyMaxOperands,
          c0 \in PolyOperands, a \in PolyOperands, b \in PolyOperands :
           LET ws == PolygonStream(cmd, c0, n, a, b)
           IN  call' = [fn |-> "parse_gp0_stream", args |-> ws,
                        ret |-> parse_gp0_stream(ws)]
    /\ UNCHANGED <<gp0vars, mainvars>>

\* parse_gp0_stream on one polygon command of every opcode 0x20..0x3F whose
\* operand word k holds k in both halves, so that every operand differs
CallParseMarkedPolygon ==
    /\ call = NoCall
    /\ \E cmd \in 32..63, n \in 0..PolyMaxOperands :
           LET ws == <<W(cmd * 256, TriCmd.lo)>> \o [k \in 1..n |-> W(k, k)]
           IN  call' = [fn |-> "parse_gp0_stream", args |-> ws,
                        ret |-> parse_gp0_stream(ws)]
    /\ UNCHANGED <<gp0vars, mainvars>>

\* Words that may follow a command word
CommandTails == {<<>>, <<Zero>>, <<One, Zero, Zero>>}

\* parse_gp0_stream on a command word of every opcode 0x00..0xFF, alone or
\* followed by a few words
CallParseCommand ==
    /\ call = NoCall
    /\ \E cmd \in 0..255, low \in {Zero, VtxA}, tail \in CommandTails :
           LET ws == <<W(cmd * 256 + (low.hi % 256), low.lo)>> \o tail
           IN  call' = [fn |-> "parse_gp0_stream", args |-> ws,
                        ret |-> parse_gp0_stream(ws)]
    /\ UNCHANGED <<gp0vars, mainvars>>

\* Most payload words after the 3 header words of a VRAM write
MaxPayloadWords == 6

\* Widths and heights of a VRAM write
VramDims == {0, 1, 2, 3, 65535}

\* parse_gp0_stream on a VRAM write of w x h pixels (the upper halves of the
\* two size words holding top) followed by n zero words
CallParseVramWrite ==
    /\ call = NoCall
    /\ \E w \in VramDims, h \in VramDims, top \in {0, 7},
          n \in 0..MaxPayloadWords :
           LET ws == <<VramWrite, W(top, w), W(top, h)>> \o [k \in 1..n |-> Zero]
           IN  call' = [fn |-> "parse_gp0_stream", args |-> ws,
                        ret |-> parse_gp0_stream(ws)]
    /\ UNCHANGED <<gp0vars, mainvars>>

NextPure ==
    \/ CallParamCount \/ CallGetNextPacket
    \/ CallSignExtend \/ CallParseEnv
    \/ CallExpand \/ CallParsePolygon \/ CallParseCommand
    \/ CallParseVramWrite \/ CallParseMarkedPolygon

SpecPure == InitPure /\ [][NextPure]_vars

----------------------------------------------------------------------------
(* runs of main *)

InitRun(sels, pkts, maxPkts, bads) ==
    /\ pc = "start"
    /\ \E ps \in SeqsUpTo(pkts, maxPkts), cut \in 0..MaxCut, bad \in bads :
           data = FileOf(ps, cut, bad)
    /\ sel \in sels
    /\ MainLocals
    /\ Gp0Idle
    /\ call = NoCall

\* Frame mode (an integer selector, or none)
InitFrame == InitRun(FrameSels, FramePkts, MaxFramePkts, {-1})

NextFrame ==
    Start \/ FirstPassIter \/ FirstPassEnd \/ SecondPassIter \/ SecondPassEnd

SpecFrame == InitFrame /\ [][NextFrame]_vars

\* Frame 0 of captures whose GP0 packets start with a VRAM write
InitBlit ==
    InitRun({Sel("none", 0), Sel("frame", 0)}, BlitPkts, MaxBlitPkts, {-1})

SpecBlit == InitBlit /\ [][NextFrame]_vars

\* The same capture decoded twice: with no selector, then with selector 0.
\* The first run's result is kept in call.
InitTwice == InitRun({Sel("none", 0)}, FramePkts, MaxFramePkts, {-1})

\* The second invocation: argv[2] = "0", every local of main afresh
Rerun ==
    /\ pc = "done" /\ sel.kind = "none" /\ call = NoCall
    /\ call' = [fn |-> "main", args |-> <<sel>>,
                ret |-> [out |-> out, status |-> status,
                         index |-> frame_start_offsets, nreads |-> Len(reads)]]
    /\ sel' = Sel("frame", 0)
    /\ pc' = "start"
    /\ pos' = 0 /\ in_trace' = FALSE /\ frame_start_offsets' = <<>>
    /\ current_frame' = -1 /\ dumping' = FALSE /\ pkt_count' = 0
    /\ listed' = 0 /\ vram_words' = NoVram /\ out' = <<>>
    /\ status' = "running" /\ files' = {} /\ reads' = <<>>
    /\ UNCHANGED <<data, gp0vars>>

NextTwice == NextFrame \/ Rerun

SpecTwice == InitTwice /\ [][NextTwice]_vars

\* --vram
InitVram == InitRun({Sel("vram", 0)}, VramPkts, MaxVramPkts, {-1})

NextVram == Start \/ VramIter \/ VramEnd

SpecVram == InitVram /\ [][NextVram]_vars

\* Every mode, on captures whose header may be damaged (byte 0, 9 or 10)
InitMain == InitRun(AllSels, MainPkts, MaxMainPkts, {-1, 0, 9, 10})

Next ==
    \/ Start
    \/ ListIter
    \/ VramIter \/ VramEnd
    \/ FirstPassIter \/ FirstPassEnd \/ SecondPassIter \/ SecondPassEnd

Spec == InitMain /\ [][Next]_vars

----------------------------------------------------------------------------
(* Properties *)

IncompleteKinds == {"POLY_INCOMPLETE", "LINE_INCOMPLETE", "RECT_INCOMPLETE"}

\* C1: when parse_gp0_stream has returned and no command it classified
\* lacked operand words (no truncated polygon, line, rectangle or VRAM
\* write, no unterminated polyline), the consumed counts of the returned
\* operations add up to the number of words of the stream.
C1_ConsumedSumsToLength ==
    (gpc = "done" /\ ~last.everShort) => SumConsumed(lines) = Len(words)

\* A well-formed stream with a complete polygon and a terminated polyline
\* has been decoded.
C1_Witness ==
    /\ gpc = "done" /\ ~last.everShort
    /\ \E k \in DOMAIN lines : lines[k].kind = "POLY"
    /\ \E k \in DOMAIN lines : lines[k].kind = "LINE" /\ lines[k].cmd = 72
    /\ SumConsumed(lines) >= 8

\* C2: an iteration on a polygon, line, rectangle or VRAM write that lacks
\* operand words emits exactly one "incomplete" marker of consumed count 1
\* and advances the cursor by 1.
C2_IncompleteMarker ==
    last.short =>
        /\ Len(last.emit) = 1
        /\ last.emit[1].kind \in IncompleteKinds
        /\ last.emit[1].consumed = 1
        /\ last.adv = 1

\* The operand count of the polygon table for opcode cmd
PolyTable(cmd) ==
    LET quad == (cmd \div 8) % 2 = 1
        gouraud == (cmd \div 16) % 2 = 1
        textured == (cmd \div 4) % 2 = 1
        verts == IF quad THEN 4 ELSE 3
    IN  CASE ~gouraud /\ ~textured -> verts
          [] ~gouraud /\ textured -> 2 * verts
          [] gouraud /\ ~textured -> 2 * verts - 1
          [] gouraud /\ textured -> 3 * verts - 1

\* C3: for every polygon opcode 0x20..0x3F gp0_param_count returns the
\* count of the table; 3 for the flat untextured triangle, 11 for the
\* gouraud textured quad; bits 0-1 of the opcode do not change the count.
C3_PolygonParamCount ==
    (call.fn = "gp0_param_count" /\ call.args[1] \in 32..63) =>
        LET cmd == call.args[1]
        IN  /\ call.ret = PolyTable(cmd)
            /\ (cmd \in 32..35 => call.ret = 3)
            /\ (cmd \in 60..63 => call.ret = 11)
            /\ \A low \in 0..3 :
                   gp0_param_count(cmd - (cmd % 4) + low) = call.ret

\* gp0_param_count has been applied to the gouraud textured quad 0x3E.
C3_Witness == call.fn = "gp0_param_count" /\ call.args[1] = 62

\* C4: a packet of type t and word count n written as the header word
\* (t << 24) | n and n * 4 payload bytes is read back by get_next_packet
\* with type t and a payload of exactly n * 4 bytes, the bytes written.
C4_HeaderRoundTrip ==
    call.fn = "get_next_packet" =>
        LET t == call.args[1]
            n == call.args[2]
            r == call.ret.pkt
        IN  /\ r.some
            /\ r.ptype = t
            /\ r.size = n * 4
            /\ r.base = 4 /\ r.pos = 4 + n * 4
            /\ HdrLength(HeaderWord(t, n)) = n
            /\ HdrType(HeaderWord(t, n)) = t
            /\ (n > 0 => call.ret.first = VtxA)
            /\ (n > 1 => call.ret.final = VtxB)

\* The packet of the largest type and the largest word count was read.
C4_Witness ==
    call.fn = "get_next_packet" /\ call.args = <<255, 16777215>>

\* The word count a packet header at offset p declares, from the bytes
Declared(d, p) ==
    ByteAt(d, p) + 256 * ByteAt(d, p + 1) + 65536 * ByteAt(d, p + 2)

\* Fewer than 4 bytes remain at p, or the declared payload passes the end
NoPacketAt(d, p) == p + 4 > d.len \/ p + 4 + 4 * Declared(d, p) > d.len

\* C5: every get_next_packet call of a run returns the sentinel exactly
\* when fewer than 4 bytes remain at its cursor or the declared payload
\* passes the end of the buffer, and otherwise the packet and the cursor
\* advanced by 4 + 4 * word_count; a sentinel raises nothing, and the loop
\* that got it makes no further call.
C5_SentinelExactly ==
    \A k \in DOMAIN reads :
        LET r == reads[k]
        IN  /\ ~r.some <=> NoPacketAt(data, r.at)
            /\ r.some => /\ r.to = r.at + 4 + 4 * Declared(data, r.at)
                         /\ r.ptype = ByteAt(data, r.at + 3)
            /\ ~r.some => /\ status # "ValueError"
                          /\ \A m \in DOMAIN reads : m > k => reads[m].pass # r.pass

\* A run has ended whose loops each stopped at a packet cut short by the
\* end of the buffer.
C5_Witness ==
    /\ pc = "done"
    /\ Len(reads) >= 4
    /\ \E k \in DOMAIN reads :
           /\ ~reads[k].some /\ reads[k].at + 4 <= data.len
           /\ reads[k].pass = "second"

BeginsWithMagic(d) == d.len >= 10 /\ \A k \in 0..9 : ByteAt(d, k) = Magic[k + 1]

\* C6 as claimed: a buffer whose first 10 bytes are not the magic tag fails
\* before anything is read or printed, and every buffer that begins with
\* the magic tag is accepted with cursor 14.
C6_MagicOnly ==
    pc # "start" =>
        IF BeginsWithMagic(data)
        THEN status # "ValueError" /\ (reads # <<>> => reads[1].at = 14)
        ELSE status = "ValueError" /\ reads = <<>> /\ out = <<>> /\ files = {}

\* C6 amended: a buffer of fewer than 14 bytes, or whose first 10 bytes are
\* not the magic tag, fails before anything is read or printed; every
\* buffer of at least 14 bytes that begins with the tag is accepted with
\* cursor 14, where the first packet is read.
C6_HeaderFailsFast ==
    pc # "start" =>
        IF data.len >= 14 /\ BeginsWithMagic(data)
        THEN /\ status # "ValueError"
             /\ parse_header(data).pos = 14
             /\ (reads # <<>> => reads[1].at = 14)
        ELSE /\ status = "ValueError" /\ pc = "done"
             /\ reads = <<>> /\ out = <<>> /\ files = {}

\* A capture of 14 bytes or more whose tag is wrong in its last byte only
\* was refused.
C6_Witness ==
    /\ status = "ValueError"
    /\ data.len > 14
    /\ \A k \in 0..8 : ByteAt(data, k) = Magic[k + 1]

\* The first-pass reads whose offset belongs in the frame index: a
\* TraceBegin, or a VSync read after some TraceBegin
Boundaries ==
    {k \in DOMAIN reads :
        /\ reads[k].pass = "first" /\ reads[k].some
        /\ \/ reads[k].ptype = 5
           \/ /\ reads[k].ptype = 2
              /\ \E m \in 1..(k - 1) :
                     reads[m].pass = "first" /\ reads[m].some /\ reads[m].ptype = 5}

\* C7: the frame index holds, in stream order, the offset just after every
\* TraceBegin packet and just after every VSync packet that follows a
\* TraceBegin, and nothing else; its offsets increase strictly; one
\* TraceBegin followed by 3 VSync packets gives 4 entries.
C7_FrameIndex ==
    /\ Len(frame_start_offsets) = Cardinality(Boundaries)
    /\ \A k \in Boundaries :
           LET j == Cardinality({m \in Boundaries : m <= k})
           IN  /\ frame_start_offsets[j] = reads[k].to
               /\ reads[k].to = reads[k].at + 4 + 4 * Declared(data, reads[k].at)
    /\ \A j \in 1..(Len(frame_start_offsets) - 1) :
           frame_start_offsets[j] < frame_start_offsets[j + 1]
    /\ (/\ data = FileOf(<<TraceBeginPkt, VSyncPkt, VSyncPkt, VSyncPkt>>, 0, -1)
        /\ pc \in {"first_end", "second", "second_end", "done"})
           => Len(frame_start_offsets) = 4

\* The first pass has ended on a capture that starts with a VSync, which
\* the index leaves out, and holds three boundaries.
C7_Witness ==
    /\ pc = "first_end"
    /\ Len(reads) >= 4
    /\ reads[1].some /\ reads[1].ptype = 2
    /\ Len(frame_start_offsets) = 3

\* Offset at lies in frame n of the frame index: at or after entry n, and
\* before entry n + 1 if there is one (entries counted from 0)
InFrame(at, n) ==
    /\ n + 1 <= Len(frame_start_offsets)
    /\ frame_start_offsets[n + 1] <= at
    /\ n + 2 <= Len(frame_start_offsets) => at < frame_start_offsets[n + 2]

\* C8: in the second pass, every operation printed is printed for a packet
\* that lies in the requested frame of the first-pass frame index: between
\* its offset N and its offset N + 1, or the end of the stream.
C8_SecondPassFollowsIndex ==
    pc \in {"second", "second_end"} =>
        \A k \in DOMAIN out :
            out[k].t \in {"gp0", "gp1", "vraminit"}
                => InFrame(out[k].at, frames_to_skip)

\* header + TraceBegin + one GP0 packet of a flat triangle + VSync
MinimalCapture == FileOf(<<TraceBeginPkt, TriPkt, VSyncPkt>>, 0, -1)

\* Its three vertices: x, y from VtxA, VtxB, VtxC, colour from TriCmd
MinimalVerts ==
    << <<-1, 16, 255, 0, 255>>, <<-1024, -1, 255, 0, 255>>, <<5, 0, 255, 0, 255>> >>

Kinds(o) == [k \in DOMAIN o |-> o[k].t]

\* What frame-0 mode prints for the minimal capture, but for the total
MinimalOutput ==
    /\ Kinds(out) = <<"frame", "gp0", "vsync", "total_frames", "packets_in_frame">>
    /\ out[2].op.name = "TRI_FLAT"
    /\ out[2].op.info = MinimalVerts
    /\ out[2].op.consumed = 4

MinimalRunDone == data = MinimalCapture /\ sel = Sel("frame", 0) /\ pc = "done"

\* C9 as claimed: frame-0 mode on the minimal capture prints exactly one
\* TRI_FLAT operation with the three vertices of the input words and then
\* a total frame count of 1.
C9_TotalOne == MinimalRunDone => (MinimalOutput /\ out[4].n = 1)

\* C9 amended: ... and then a total frame count of 2, the frame index
\* holding the offset after the TraceBegin and the offset after the VSync.
C9_TotalTwo ==
    MinimalRunDone =>
        (MinimalOutput /\ out[4].n = 2 /\ Len(frame_start_offsets) = 2)

\* Frame-0 mode has run to its end on the minimal capture.
C9_Witness == MinimalRunDone /\ status = "exit0"

\* The packet at offset p is a GP0 packet of at least 262147 words that
\* starts with opcode 0xA0 and two zero words
FullBlitAt(d, p) ==
    /\ ByteAt(d, p + 3) = 0
    /\ Declared(d, p) >= 262147
    /\ ByteAt(d, p + 7) = 160
    /\ \A b \in 8..15 : ByteAt(d, p + b) = 0

\* C10: a --vram run on a capture none of whose packets is the full
\* upload ends with a non-zero status and writes no file; where the
\* capture has its header (14 bytes, the magic tag), so that there is a
\* packet stream, it prints "VRAM not found" and nothing else and exits
\* with status 1.
C10_VramNotFound ==
    (/\ pc = "done"
     /\ ~\E k \in DOMAIN reads : reads[k].some /\ FullBlitAt(data, reads[k].at))
        => /\ files = {}
           /\ status \in {"exit1", "ValueError"}
           /\ (data.len >= 14 /\ BeginsWithMagic(data))
                  => (status = "exit1" /\ Kinds(out) = <<"vram_not_found">>)

\* A --vram run has ended "not found" after reading an upload one word
\* short of the full one.
C10_Witness ==
    /\ pc = "done" /\ status = "exit1" /\ sel.kind = "vram"
    /\ \E k \in DOMAIN reads :
           reads[k].some /\ Declared(data, reads[k].at) = 262146

\* The first packet read by the --vram scan that is the full upload, if any
FirstBlit ==
    {k \in DOMAIN reads :
        /\ reads[k].some /\ FullBlitAt(data, reads[k].at)
        /\ \A m \in 1..(k - 1) : ~(reads[m].some /\ FullBlitAt(data, reads[m].at))}

\* C11: the --vram scan takes its image from the first GP0 packet, in stream
\* order, of at least 262147 words that begins with opcode 0xA0 and two
\* zero words: exactly the 262144 words 3..262146 of that packet. It reads
\* no packet after it, and without such a packet it has no image.
C11_FirstBlitOnly ==
    pc \in {"vram_end", "done"} =>
        /\ vram_words.some <=> FirstBlit # {}
        /\ \A k \in FirstBlit :
               /\ k = Len(reads)
               /\ vram_words.base = reads[k].at + 4 + 4 * 3
               /\ vram_words.count = 262144
               /\ vram_words.base + 4 * vram_words.count
                      <= reads[k].at + 4 + 4 * Declared(data, reads[k].at)
               /\ U32At(data, vram_words.base) = U32At(data, reads[k].at + 16)
               /\ U32At(data, vram_words.base + 4 * (vram_words.count - 1))
                      = U32At(data, reads[k].at + 4 + 4 * 262146)

\* The scan took the image of the first full upload, which came after a
\* packet that is not one and before another full upload it never read.
C11_Witness ==
    /\ pc = "done" /\ status = "exit0"
    /\ Len(reads) = 2
    /\ vram_words.base = reads[2].at + 16
    /\ U32At(data, vram_words.base) = VtxA
    /\ U32At(data, vram_words.base + 4 * 262143) = VtxB
    /\ reads[2].to < data.len

\* C12: sign_extend_11 maps an 11-bit field f to f when f < 0x400 and to
\* f - 0x800 otherwise, a value in -1024..1023; 0x7FF gives -1, 0 gives 0,
\* 0x400 gives -1024. DRAW_OFFSET decodes X from bits 0-10 and Y from bits
\* 11-21 of its word with this function, whatever bits 22-23 hold.
C12_SignExtend11 ==
    /\ call.fn = "sign_extend_11" =>
           LET f == call.args[1]
           IN  /\ call.ret = (IF f < 1024 THEN f ELSE f - 2048)
               /\ call.ret \in -1024..1023
               /\ (f = 2047 => call.ret = -1)
               /\ (f = 0 => call.ret = 0)
               /\ (f = 1024 => call.ret = -1024)
    /\ call.fn = "parse_gp0_env" =>
           LET fx == call.args[1]
               fy == call.args[2]
           IN  /\ call.ret.name = "DRAW_OFFSET"
               /\ call.ret.args = <<IF fx < 1024 THEN fx ELSE fx - 2048,
                                     IF fy < 1024 THEN fy ELSE fy - 2048>>

\* DRAW_OFFSET was decoded with X = 0x400 and Y = 0x7FF, bits 22-23 set.
C12_Witness ==
    /\ call.fn = "parse_gp0_env"
    /\ call.args = <<1024, 2047, 3>>
    /\ call.ret.args = <<-1024, -1>>

\* a | b, bit by bit
RECURSIVE BitOr(_, _)
BitOr(a, b) ==
    IF a = 0 THEN b
    ELSE IF b = 0 THEN a
    ELSE (IF a % 2 = 1 \/ b % 2 = 1 THEN 1 ELSE 0)
         + 2 * BitOr(a \div 2, b \div 2)

\* (v << 3) | (v >> 2)
Expanded(v) == BitOr(v * 8, v \div 4)

\* The three 5-bit fields of a colour word (bits 0-4, 5-9, 10-14), expanded
ExpandedChannels(w) ==
    <<Expanded(w.lo % 32), Expanded((w.lo \div 32) % 32),
      Expanded((w.lo \div 1024) % 32)>>

\* C13: expand5to8 maps a 5-bit value v to (v << 3) | (v >> 2), a value in
\* 0..255 that increases strictly with v; 0x00 gives 0x00, 0x10 gives 0x84,
\* 0x1F gives 0xFF. Every colour channel of a decoded polygon vertex is the
\* expansion of a 5-bit field of its colour word: the command word for a
\* flat polygon and for vertex 0, the colour word before the vertex word
\* for the later vertices of a gouraud polygon.
C13_Expand5to8 ==
    /\ call.fn = "expand5to8" =>
           LET v == call.args[1]
           IN  /\ call.ret = Expanded(v)
               /\ call.ret \in 0..255
               /\ \A u \in 0..(v - 1) : expand5to8(u) < call.ret
               /\ (v = 0 => call.ret = 0)
               /\ (v = 16 => call.ret = 132)
               /\ (v = 31 => call.ret = 255)
    /\ (call.fn = "parse_gp0_stream" /\ call.ret # <<>>
         /\ call.ret[1].kind = "POLY") =>
           LET ws == call.args
               op == call.ret[1]
               gouraud == (op.cmd \div 16) % 2 = 1
               stride == 1 + (IF gouraud THEN 1 ELSE 0)
                           + (IF (op.cmd \div 4) % 2 = 1 THEN 1 ELSE 0)
           IN  /\ Len(op.info) = (IF (op.cmd \div 8) % 2 = 1 THEN 4 ELSE 3)
               /\ \A j \in 0..(Len(op.info) - 1) :
                      LET c == IF gouraud THEN ws[1 + j * stride] ELSE ws[1]
                          v == op.info[j + 1]
                      IN  <<v[3], v[4], v[5]>> = ExpandedChannels(c)

\* A gouraud quad was decoded whose vertices have different colours, one
\* of them the grey 84,84,84.
C13_Witness ==
    /\ call.fn = "parse_gp0_stream" /\ call.ret # <<>>
    /\ call.ret[1].kind = "POLY" /\ call.ret[1].cmd = 56
    /\ Len(call.ret[1].info) = 4
    /\ call.ret[1].info[1][3] # call.ret[1].info[2][3]
    /\ \E j \in 1..4 : call.ret[1].info[j][3] = 132

\* C14: a frame-mode run whose requested index is at or past the length of
\* the frame index prints no GP0 or GP1 operation and reports 0 packets in
\* the frame; a run whose first pass found no boundary prints "No frames
\* found" and nothing else; neither run ends in an exception.
C14_EmptyPastIndex ==
    (pc = "done" /\ IsInt(sel) /\ parse_header(data).ok) =>
        /\ status \in {"exit0", "exit1"}
        /\ frame_start_offsets = <<>> => Kinds(out) = <<"no_frames">>
        /\ (frame_start_offsets # <<>> /\ sel.idx >= Len(frame_start_offsets)) =>
               /\ \A k \in DOMAIN out : out[k].t \notin {"gp0", "gp1", "vraminit"}
               /\ \E k \in DOMAIN out :
                      out[k].t = "packets_in_frame" /\ out[k].n = 0

\* C15: a run with no mode selector and a run with frame index 0 on the same
\* capture print the same frame headers, operations, VSync markers and
\* totals and end with the same status; the run with index 0 reads no more
\* packets than the run without a selector.
C15_DefaultIsFrameZero ==
    (pc = "done" /\ call.fn = "main") =>
        /\ sel = Sel("frame", 0) /\ call.args = <<Sel("none", 0)>>
        /\ out = call.ret.out
        /\ status = call.ret.status
        /\ frame_start_offsets = call.ret.index
        /\ Len(reads) <= call.ret.nreads

\* Both runs have ended on a capture where frame 0 holds a GP0 operation
\* and the run with index 0 stopped early.
C15_Witness ==
    /\ pc = "done" /\ call.fn = "main" /\ status = "exit0"
    /\ \E k \in DOMAIN out : out[k].t = "gp0"
    /\ \E k \in DOMAIN out : out[k].t = "vsync"
    /\ Len(reads) < call.ret.nreads

\* The offsets of the whole packets of buffer d from offset p on, in order
RECURSIVE PacketOffsets(_, _)
PacketOffsets(d, p) ==
    IF NoPacketAt(d, p) THEN <<>>
    ELSE <<p>> \o PacketOffsets(d, p + 4 + 4 * Declared(d, p))

\* The entries of the packet listing, in order
RECURSIVE Listed(_)
Listed(o) ==
    IF o = <<>> THEN <<>>
    ELSE (IF Head(o).t = "packet" THEN <<Head(o)>> ELSE <<>>) \o Listed(Tail(o))

\* C16: a --list run lists the type of every packet of the stream in
\* order, up to the cap of 200 packets, the packets after a TraceBegin
\* included.
C16_ListsEveryPacket ==
    (pc = "done" /\ sel.kind = "list" /\ parse_header(data).ok) =>
        LET offs == PacketOffsets(data, 14)
            ls == Listed(out)
        IN  /\ Len(ls) = Min(200, Len(offs))
            /\ \A k \in DOMAIN ls :
                   /\ ls[k].at = offs[k]
                   /\ ls[k].n = ByteAt(data, offs[k] + 3)

\* C17: a --vram run that found the image renders its preview whatever the
\* image holds: every block average in 0..255 is mapped by
\* min(9, avg * 10 // 256) to a character the ramp has, so the run prints
\* the preview, writes its two files and ends with status 0.
C17_RenderNeverFails ==
    (pc = "done" /\ vram_words.some) =>
        /\ \A b \in LitBlocks(data, vram_words) :
               LET avg == BlockAvg(data, vram_words, b[1], b[2])
               IN  avg \in 0..255 /\ RampIndex(avg) + 1 \in DOMAIN Ramp
        /\ status = "exit0"
        /\ \E k \in DOMAIN out : out[k].t = "ascii"
        /\ files = {"ppm", "layout"}

\* C18: a command word whose opcode is in 0xE0..0xFF is decoded as an
\* environment operation that consumes exactly one word, the opcodes 0xE0
\* and 0xE7..0xFF included; it is never reported as an unknown opcode.
C18_EnvRange ==
    (call.fn = "parse_gp0_stream" /\ call.args[1].hi \div 256 \in 224..255) =>
        /\ call.ret # <<>>
        /\ call.ret[1].kind = "ENV"
        /\ call.ret[1].consumed = 1
        /\ \A k \in DOMAIN call.ret : call.ret[k].kind # "UNKNOWN"

\* The positions a polyline at position at examines for its terminator
\* (every step-th word after the opcode) that hold a word w with
\* (w & 0xF000F000) = 0x50005000
TerminatorsAfter(ws, at, step) ==
    {j \in (at + 1)..(Len(ws) - 1) :
        /\ (j - at - 1) % step = 0
        /\ ws[j + 1].hi \div 4096 = 5
        /\ ws[j + 1].lo \div 4096 = 5}

\* C19: an iteration on a line opcode 0x40..0x5F takes 3 operand words if
\* shaded and 2 if not for a single segment, and for a polyline the words
\* between the opcode and the first terminator among the words it
\* examines (every second word if shaded, every word if not); a polyline
\* with no such terminator in the rest of the stream, shaded or not, is
\* emitted as an "incomplete" marker that consumes 1 word.
C19_LineOperands ==
    (last.at >= 0 /\ CmdOf(words[last.at + 1]) \in 64..95) =>
        LET cmd == words[last.at + 1].hi \div 256
            shaded == (cmd \div 16) % 2 = 1
            poly == (cmd \div 8) % 2 = 1
            T == TerminatorsAfter(words, last.at, IF shaded THEN 2 ELSE 1)
            first == CHOOSE j \in T : \A m \in T : j <= m
            n == IF poly THEN first - last.at - 1
                 ELSE IF shaded THEN 3 ELSE 2
            complete == IF poly THEN T # {} ELSE last.at + 1 + n <= Len(words)
        IN  /\ Len(last.emit) = 1
            /\ IF complete
               THEN /\ last.emit[1].kind = "LINE"
                    /\ last.emit[1].consumed = 1 + n
                    /\ last.adv = 1 + n
               ELSE /\ last.emit[1].kind = "LINE_INCOMPLETE"
                    /\ last.emit[1].consumed = 1
                    /\ last.adv = 1

\* ceil(w * h / 2) for w, h < 2^16, without forming w * h
HalfPixelsUp(w, h) ==
    IF w % 2 = 0 THEN (w \div 2) * h
    ELSE IF h % 2 = 0 THEN w * (h \div 2)
    ELSE ((w - 1) \div 2) * h + ((h + 1) \div 2)

\* A call of parse_gp0_stream on a stream that starts with a VRAM write
\* command and its two size words
VramWriteCall ==
    /\ call.fn = "parse_gp0_stream"
    /\ Len(call.args) >= 3
    /\ call.args[1].hi \div 256 = 160

BlitSignatureAt(d, p) ==
    /\ ByteAt(d, p + 3) = 0
    /\ Declared(d, p) >= 3
    /\ ByteAt(d, p + 7) = 160
    /\ \A b \in 8..15 : ByteAt(d, p + b) = 0

\* C21 as claimed: the second pass prints a GP0 packet as the skipped VRAM
\* preload exactly when the --vram scan would take it as the full upload
\* (at least 262147 words, opcode 0xA0, two zero words), and decodes every
\* other GP0 packet operation by operation.
C21_SkipsWhatExtractorTakes ==
    \A k \in DOMAIN out :
        /\ out[k].t = "vraminit" => FullBlitAt(data, out[k].at)
        /\ out[k].t = "gp0" => ~FullBlitAt(data, out[k].at)

\* C21 amended: the second pass prints a GP0 packet as the skipped VRAM
\* preload exactly when it has at least 3 words and starts with opcode 0xA0
\* and two zero words, whatever its length: every packet the --vram scan
\* would take is skipped, and so is a short packet with that start, whose
\* further commands are not decoded; every other GP0 packet is decoded
\* operation by operation.
C21_SkipsBySignature ==
    \A k \in DOMAIN out :
        /\ out[k].t = "vraminit" =>
               /\ BlitSignatureAt(data, out[k].at)
               /\ out[k].n = Declared(data, out[k].at) - 3
        /\ out[k].t = "gp0" => ~BlitSignatureAt(data, out[k].at)
        /\ (out[k].t \in {"vraminit", "gp0"} /\ FullBlitAt(data, out[k].at))
               => out[k].t = "vraminit"

\* A run has skipped the short packet of 8 words and decoded the VRAM write
\* of the packet with a non-zero second word.
C21_Witness ==
    /\ pc = "done" /\ status = "exit0"
    /\ \E k \in DOMAIN out : out[k].t = "vraminit" /\ out[k].n = 5
    /\ \E k \in DOMAIN out : out[k].t = "gp0" /\ out[k].op.kind = "VRAM_WRITE"

\* An 11-bit field read as a signed number
Signed11(f) == IF f < 1024 THEN f ELSE f - 2048

\* C22: a polygon command that has all its operand words is decoded into
\* exactly 3 or 4 vertices (4 for a quad). Vertex j is read from the word
\* at 1 + j * stride after the command word, stride being 1, plus 1 if
\* gouraud, plus 1 if textured; its colour is that of the command word for
\* a flat polygon and for vertex 0, and that of the word just before the
\* vertex word otherwise. The vertex loop reads no word past the command's
\* words and ends with every one of its 1 + operand count words used.
C22_PolygonLayout ==
    (/\ call.fn = "parse_gp0_stream"
     /\ call.args[1].hi \div 256 \in 32..63
     /\ Len(call.args) >= 1 + PolyTable(call.args[1].hi \div 256)) =>
        LET ws == call.args
            cmd == ws[1].hi \div 256
            op == call.ret[1]
            gouraud == (cmd \div 16) % 2 = 1
            textured == (cmd \div 4) % 2 = 1
            nverts == IF (cmd \div 8) % 2 = 1 THEN 4 ELSE 3
            stride == 1 + (IF gouraud THEN 1 ELSE 0) + (IF textured THEN 1 ELSE 0)
            chunk == SubSeq(ws, 1, 1 + PolyTable(cmd))
            loop == PolyVerts(chunk, nverts, gouraud, textured, 0, 1,
                              ColorOf(chunk[1]), <<>>)
        IN  /\ op.kind = "POLY"
            /\ op.consumed = 1 + PolyTable(cmd)
            /\ Len(op.info) = nverts
            /\ \A j \in 0..(nverts - 1) :
                   LET v == ws[2 + j * stride]
                       c == IF gouraud /\ j > 0 THEN ws[1 + j * stride] ELSE ws[1]
                   IN  /\ 2 + j * stride + (IF textured THEN 1 ELSE 0) <= Len(chunk)
                       /\ op.info[j + 1] =
                              <<Signed11(v.lo % 2048), Signed11(v.hi % 2048)>>
                              \o ExpandedChannels(c)
            /\ ~loop.err
            /\ loop.verts = op.info
            /\ loop.idx = Len(chunk)
            /\ nverts * stride - (IF gouraud THEN 1 ELSE 0) = PolyTable(cmd)

\* The gouraud textured quad with operand words 1..11 was decoded: its
\* vertices are the words 1, 4, 7, 10 and its later colours the words 3, 6, 9.
C22_Witness ==
    /\ call.fn = "parse_gp0_stream"
    /\ Len(call.args) = 12 /\ call.args[1].hi = 15360 /\ call.args[12] = W(11, 11)
    /\ Len(call.ret) = 1
    /\ call.ret[1].info =
           << <<1, 1, 255, 0, 255>>, <<4, 4, 24, 0, 0>>,
              <<7, 7, 49, 0, 0>>, <<10, 10, 74, 0, 0>> >>

\* What every state of a parse_gp0_stream call satisfies: the cursor is
\* within the stream, the last iteration moved it forward by at least one
\* word, a polyline's terminator scan ended past the opcode, and every
\* operation emitted so far consumed at least one word
ForwardProgress ==
    /\ 0 <= i /\ i <= Len(words)
    /\ last.at >= 0 =>
           /\ last.adv >= 1
           /\ i = last.at + last.adv
           /\ LET cmd == CmdOf(words[last.at + 1])
                  step == IF BitSet(cmd, 4) THEN 2 ELSE 1
              IN  (cmd \in 64..95 /\ BitSet(cmd, 3)) =>
                      LET j == ScanTerminator(words, last.at + 1, step)
                      IN  last.at + 1 <= j /\ j < Len(words) + step
    /\ \A k \in DOMAIN lines : lines[k].consumed >= 1

\* C23: parse_gp0_stream terminates on every word stream: each iteration of
\* its loop moves the cursor forward by at least one word, never backwards
\* and never past the end of the stream, every emitted operation consumes
\* at least one word, and the call eventually returns.
C23_Terminates ==
    /\ []ForwardProgress
    /\ [][(gpc' = "loop" => i' > i) /\ i' <= Len(words)]_vars
    /\ <>(gpc = "done")

\* parse_gp0_stream has returned from a stream of 6 words or more in which
\* it scanned a shaded polyline and met a command cut short by the end of
\* the stream.
C23_Witness ==
    /\ gpc = "done" /\ Len(words) >= 6
    /\ \E k \in DOMAIN lines :
           lines[k].kind = "LINE" /\ lines[k].cmd = 88 /\ lines[k].consumed >= 3
    /\ last.everShort

\* C24: on every word stream the returned operations tile the stream: each
\* iteration emits exactly one operation, whose consumed count is the
\* advance of the cursor, so that the consumed counts emitted so far add
\* up to the cursor and, at the return, to the length of the stream.
C24_OperationsTileStream ==
    /\ last.at >= 0 =>
           /\ Len(last.emit) = 1
           /\ last.emit[1].consumed = last.adv
    /\ SumConsumed(lines) = i
    /\ gpc = "done" => SumConsumed(lines) = Len(words)

\* C25: the operation emitted for a polyline whose terminator is found
\* consumes the opcode, the words up to the terminator and the terminator
\* itself, so that the cursor is left on the word after the terminator.
C25_TerminatorConsumed ==
    (/\ last.at >= 0
     /\ CmdOf(words[last.at + 1]) \in 64..95
     /\ (CmdOf(words[last.at + 1]) \div 8) % 2 = 1) =>
        LET cmd == words[last.at + 1].hi \div 256
            T == TerminatorsAfter(words, last.at,
                                  IF (cmd \div 16) % 2 = 1 THEN 2 ELSE 1)
            first == CHOOSE j \in T : \A m \in T : j <= m
        IN  T # {} =>
               /\ Len(last.emit) = 1
               /\ last.emit[1].consumed = first - last.at + 1
               /\ i = first + 1

====
